---- MODULE Spec2Model ----
(***************************************************************************)
(* Model of src/worker.py: the scrape worker's poll loop (main), the       *)
(* retrying coordinator transport (safe_request), the per-item             *)
(* fetch-and-parse (fetch_one) and the ThreadPoolExecutor fan-out that     *)
(* main drives.                                                            *)
(***************************************************************************)
EXTENDS Integers, Sequences, FiniteSets, TLC

(***************************************************************************)
(* Bounds of the model.                                                    *)
(***************************************************************************)
\* longest batch the coordinator hands out
MaxBatch == 3
\* most transport exceptions in a row within one safe_request call
MaxFails == 2
\* identifiers the coordinator draws batches from
IdSet == {1, 2}
\* longest text handed to clean_int and clean_float
MaxText == 3

(***************************************************************************)
(* Program constants.                                                      *)
(***************************************************************************)
\* worker.py:9 sets 32.  The pool logic does not depend on the number; the
\* model runs the pool with 2 workers so that a batch larger than the pool
\* (MaxBatch > MAX_WORKERS) lies within the bounds.
MAX_WORKERS == 2
\* worker.py:78, delay = 5 in safe_request
DELAY == 5
\* worker.py:95 and worker.py:100, time.sleep(5) in main
BACKOFF == 5

\* Sequences over S of length at most n.
RECURSIVE SeqsUpTo(_, _)
SeqsUpTo(S, n) ==
    IF n = 0 THEN { <<>> }
    ELSE LET shorter == SeqsUpTo(S, n - 1)
         IN  shorter \cup { Append(s, x) : s \in { t \in shorter : Len(t) = n - 1 }, x \in S }

(***************************************************************************)
(* clean_int and clean_float.                                              *)
(***************************************************************************)
\* Texts are sequences of characters; the alphabet has digits, the decimal
\* point and one other character.
Chars == {"0", "1", "5", ".", "x"}
Digits == {"0", "1", "5"}
Texts == SeqsUpTo(Chars, MaxText)

\* Python's None where a text is expected, and the result of find() when
\* the element is not in the page.
NoneText == << "None" >>

\* s or ""
OrEmpty(s) == IF s = NoneText THEN <<>> ELSE s

DigitVal(c) == CASE c = "0" -> 0 [] c = "1" -> 1 [] c = "5" -> 5

RECURSIVE Pow10(_)
Pow10(n) == IF n = 0 THEN 1 ELSE 10 * Pow10(n - 1)

\* Floating-point values are kept as integers, in units of 10^-MaxText.
Scale == Pow10(MaxText)

\* re.search scans for the leftmost position from k on at which \d matches;
\* 0 when there is none.
RECURSIVE SearchDigit(_, _)
SearchDigit(s, k) ==
    IF k > Len(s) THEN 0
    ELSE IF s[k] \in Digits THEN k
    ELSE SearchDigit(s, k + 1)

\* \d+ is greedy: the last position of the run of digits that starts at k.
RECURSIVE DigitsEnd(_, _)
DigitsEnd(s, k) ==
    IF k < Len(s) /\ s[k + 1] \in Digits THEN DigitsEnd(s, k + 1) ELSE k

\* int() of a string of digits.
RECURSIVE ToInt(_)
ToInt(d) ==
    IF Len(d) = 0 THEN 0
    ELSE 10 * ToInt(SubSeq(d, 1, Len(d) - 1)) + DigitVal(d[Len(d)])

\* Mutant: the pattern is \d, one digit.
clean_int_one_digit(s) ==
    LET t == OrEmpty(s)
        a == SearchDigit(t, 1)
    IN  IF a = 0 THEN 0 ELSE ToInt(SubSeq(t, a, a))

\* clean_int: m = re.search(r"\d+", s or ""); int(m.group(0)) if m else 0
clean_int(s) ==
    LET t == OrEmpty(s)
        a == SearchDigit(t, 1)
    IN  IF a = 0 THEN 0 ELSE ToInt(SubSeq(t, a, DigitsEnd(t, a)))

\* float() of a token \d+ or \d+\.\d+, in units of 10^-MaxText.
ToFloat(t, a, e, b) ==
    ToInt(SubSeq(t, a, e)) * Scale
    + (IF b > e THEN ToInt(SubSeq(t, e + 2, b)) * Pow10(MaxText - (b - e - 1)) ELSE 0)

\* clean_float: m = re.search(r"\d+(?:\.\d+)?", s or "");
\* float(m.group(0)) if m else 0.0
clean_float(s) ==
    LET t == OrEmpty(s)
        a == SearchDigit(t, 1)
        e == DigitsEnd(t, a)
        b == IF e + 2 <= Len(t) /\ t[e + 1] = "." /\ t[e + 2] \in Digits
             THEN DigitsEnd(t, e + 2) ELSE e
    IN  IF a = 0 THEN 0 ELSE ToFloat(t, a, e, b)

(***************************************************************************)
(* Values exchanged with the environment.                                  *)
(***************************************************************************)
Statuses == {200, 404, 500}

\* The sub-structure of an item page that fetch_one looks at:
\*   code    the div with id submissionCode-0 is there
\*   row     the metadata table has a tbody with a first row
\*   links   number of <a> elements in that row
\*   href    the second link carries an href attribute
\*   tspan   the datetime span of the row: "absent", "noattr" (there, without
\*           the data-timestamp-iso attribute) or "iso"
\*   lang    the row has at least five cells
\*   score, exec, mem   text of the score div and of the execution-time and
\*           memory spans of the row, NoneText when the element is not there
\*   subs    texts of the subtask-score spans of the whole page
Page(code, row, links, href, tspan, lang, score, exec, mem, subs) ==
    [code |-> code, row |-> row, links |-> links, href |-> href, tspan |-> tspan,
     lang |-> lang, score |-> score, exec |-> exec, mem |-> mem, subs |-> subs]

\* A page with every sub-element.
FullDoc ==
    Page(TRUE, TRUE, 2, TRUE, "iso", TRUE,
         <<"1", ".", "5">>, <<"1", "5">>, <<"5", "0">>, << <<"1", ".", "5">>, <<"5">> >>)

\* A page without the metadata row (and so without what the row holds), with
\* and without the code block and the subtask scores.
NoRowDocs ==
    { Page(c, FALSE, 0, FALSE, "absent", FALSE, NoneText, NoneText, NoneText, s) :
        c \in BOOLEAN, s \in { <<>>, << <<"1", ".", "5">>, <<"5">> >> } }

NoRowDoc == Page(FALSE, FALSE, 0, FALSE, "absent", FALSE, NoneText, NoneText, NoneText, <<>>)

\* A page that is complete but for the href of its second link.
NoHrefDoc == [FullDoc EXCEPT !.href = FALSE]

\* The pages the items of a batch are answered with.
Docs == { FullDoc, NoHrefDoc, NoRowDoc }

\* Texts of an element of the row: not there, without a digit, with digits.
SomeTexts == { NoneText, <<"x">>, <<"1", ".", "5">> }

\* Every combination of sub-elements being there or missing.
AllPages ==
    NoRowDocs \cup
    { Page(c, TRUE, l[1], l[2], t, g, sc, ex, me, su) :
        c \in BOOLEAN,
        l \in { <<0, FALSE>>, <<1, FALSE>>, <<2, FALSE>>, <<2, TRUE>> },
        t \in {"absent", "noattr", "iso"},
        g \in BOOLEAN,
        sc \in SomeTexts, ex \in SomeTexts, me \in SomeTexts,
        su \in { <<>>, << <<"x">> >>, << <<"1", ".", "5">>, <<"5">> >> } }

\* What requests.get(url, timeout=30) of fetch_one can produce: a transport
\* exception, or a response with a status and a document.
ItemResponses ==
    { [exc |-> TRUE, status |-> 0, doc |-> NoRowDoc] }
    \cup { [exc |-> FALSE, status |-> 200, doc |-> d] : d \in Docs }
    \cup { [exc |-> FALSE, status |-> s, doc |-> d] :
             s \in {404, 500}, d \in {FullDoc, NoRowDoc} }

NoResponse == [exc |-> FALSE, status |-> 0, doc |-> NoRowDoc]

Batches == SeqsUpTo(IdSet, MaxBatch)

\* The JSON value found under "ids" of a /get_work body.
IdsValues ==
    { [t |-> "list", n |-> 0, v |-> b] : b \in Batches }
    \cup { [t |-> "int", n |-> k, v |-> <<>>] : k \in {0, 5} }
    \cup { [t |-> "null", n |-> 0, v |-> <<>>], [t |-> "absent", n |-> 0, v |-> <<>>] }

EmptyList == [t |-> "list", n |-> 0, v |-> <<>>]

\* Bodies of coordinator responses: not JSON at all, JSON that is not an
\* object, or a JSON object.
Bodies ==
    { [shape |-> "notjson", ids |-> EmptyList], [shape |-> "notobject", ids |-> EmptyList] }
    \cup { [shape |-> "object", ids |-> x] : x \in IdsValues }

AckBodies ==
    { [shape |-> "notjson", ids |-> EmptyList],
      [shape |-> "object", ids |-> [t |-> "absent", n |-> 0, v |-> <<>>]] }

NoBody == [shape |-> "notjson", ids |-> EmptyList]


(***************************************************************************)
(* fetch_one: one item's GET and parse.                                    *)
(***************************************************************************)
\* Return values of fetch_one.  kind "raise" stands for an exception that
\* leaves a block instead of a value.
None == [kind |-> "None", id |-> 0]
NOTFOUND == [kind |-> "NOTFOUND", id |-> 0]
Raised == [kind |-> "raise", id |-> 0]

\* The texts fetch_one takes over from the page.  PyNone is Python's None in
\* a field of the record; no text of a page equals it.
PyNone == "<None>"
ISO == "2024-05-01T12:00:00+00:00"
USER == "alice"
HREF == "/problem/42"
LANG == "C++"
CODE == "int main() {}"

\* get_text of an element of the row, "" when the element is not there
\* (lines 60-61).
TextOrEmpty(t) == IF t = NoneText THEN <<>> ELSE t

\* Lines 35-36 and 44-70: the record built from a page that has the
\* metadata row.  links[1]["href"] raises KeyError when the second link has
\* no href; tspan.get(...) is None when the span lacks the attribute.
Record(i, doc) ==
    IF doc.links >= 2 /\ ~doc.href THEN Raised
    ELSE [kind |-> "row", id |-> i,
          ts_iso |-> CASE doc.tspan = "absent" -> ""
                       [] doc.tspan = "noattr" -> PyNone
                       [] OTHER -> ISO,
          username |-> IF doc.links >= 1 THEN USER ELSE "",
          problem_link |-> IF doc.links >= 2 THEN "https://oj.uz" \o HREF ELSE "",
          language |-> IF doc.lang THEN LANG ELSE "",
          score |-> IF doc.score # NoneText THEN clean_float(doc.score) ELSE 0,
          subtask_scores |-> [k \in 1..Len(doc.subs) |-> clean_float(doc.subs[k])],
          execution_time |-> clean_int(TextOrEmpty(doc.exec)),
          memory |-> clean_int(TextOrEmpty(doc.mem)),
          code |-> IF doc.code THEN CODE ELSE ""]

\* The row tuple fetch_one returns for a page with every sub-element.
Row(i) == Record(i, FullDoc)

\* Mutant: the truth test of line 116 accepts every row.
TruthyAlways(row) == TRUE

\* Python truth value of a returned row: None is false, a non-empty tuple
\* and a non-empty string are true.
Truthy(row) == row.kind \in {"row", "NOTFOUND"}

\* Mutant: the test for a status other than 200 comes first.
TryBodyStatusFirst(i, resp) ==
    IF resp.exc THEN Raised
    ELSE IF resp.status # 200 THEN None
    ELSE IF resp.status = 404 THEN NOTFOUND
    ELSE IF ~resp.doc.row THEN None
    ELSE Record(i, resp.doc)

\* Mutant: every status other than 200 counts as not found.
TryBodyAllNotFound(i, resp) ==
    IF resp.exc THEN Raised
    ELSE IF resp.status # 200 THEN NOTFOUND
    ELSE IF ~resp.doc.row THEN None
    ELSE Record(i, resp.doc)

\* Mutant: the test of line 40 for the metadata row is gone.
TryBodyNoRowTest(i, resp) ==
    IF resp.exc THEN Raised
    ELSE IF resp.status = 404 THEN NOTFOUND
    ELSE IF resp.status # 200 THEN None
    ELSE Record(i, resp.doc)

\* The body of the try block of fetch_one for the response resp of its GET.
TryBody(i, resp) ==
    IF resp.exc THEN Raised
    ELSE IF resp.status = 404 THEN NOTFOUND
    ELSE IF resp.status # 200 THEN None
    ELSE IF ~resp.doc.row THEN None
    ELSE Record(i, resp.doc)

\* Mutant: fetch_one without its except clause.
fetch_one_no_except(i, resp) == TryBody(i, resp)

\* fetch_one with its except clause: every exception becomes None.
fetch_one(i, resp) ==
    LET b == TryBody(i, resp)
    IN  IF b.kind = "raise" THEN None ELSE b

(***************************************************************************)
(* safe_request and the decoding of coordinator responses.                 *)
(***************************************************************************)
\* What one requests.request(...) attempt can produce.
AttemptOutcomes ==
    { [exc |-> TRUE, status |-> 0, body |-> NoBody] }
    \cup { [exc |-> FALSE, status |-> s, body |-> b] : s \in Statuses, b \in Bodies }

\* Mutant: a 5xx response is retried like an exception.
RaisesOnServerError(o) == o.exc \/ o.status >= 500

\* The try/except of safe_request: an attempt is retried exactly when
\* requests.request raised.
Raises(o) == o.exc

\* The state of a fresh safe_request call: its position st and local delay,
\* and what has happened in it so far: attempts made, attempts that ended in
\* a transport exception (fails) and in a response (got), sleeps and the
\* time slept.
NewCall(method) ==
    [method |-> method, st |-> "try", attempts |-> 0, fails |-> 0, got |-> 0,
     sleeps |-> 0, slept |-> 0, delay |-> DELAY]

\* No safe_request call is running.
NoCall ==
    [method |-> "", st |-> "idle", attempts |-> 0, fails |-> 0, got |-> 0,
     sleeps |-> 0, slept |-> 0, delay |-> DELAY]

\* r.json().get("ids", []): raises unless the body is a JSON object.
DecodeRaises(body) == body.shape # "object"

DecodedIds(body) ==
    IF body.ids.t = "absent" THEN EmptyList ELSE body.ids

\* Mutant: line 98 tests for a missing value instead of a false one.
IdsTruthyNotNull(x) == x.t # "null"

\* Python truth value of the decoded ids ("if not ids").
IdsTruthy(x) ==
    CASE x.t = "list" -> Len(x.v) > 0
      [] x.t = "int" -> x.n # 0
      [] OTHER -> FALSE

\* "for i in ids" raises TypeError on a value that is not iterable.
Iterable(x) == x.t = "list"

(***************************************************************************)
(* State.                                                                  *)
(***************************************************************************)
VARIABLES
    pc,        \* position of main
    sr,        \* the running safe_request call
    r,         \* the response safe_request returned last
    ids,       \* decoded "ids" of the current poll
    futs,      \* the futures submitted for the current batch, in order
    results,   \* main's results list
    notfound,  \* main's notfound list
    payload,   \* the payload built last
    nap,       \* duration of main's last time.sleep
    scrape     \* a call of clean_int and clean_float: argument and results

vars == <<pc, sr, r, ids, futs, results, notfound, payload, nap, scrape>>

NoPayload == [submissions |-> <<>>, notfound |-> <<>>]
NoAttempt == [exc |-> FALSE, status |-> 0, body |-> NoBody]
NoScrape == [arg |-> NoneText, done |-> FALSE, int |-> 0, float |-> 0]

Init ==
    /\ pc = "get_work"
    /\ sr = NewCall("GET")
    /\ r = NoAttempt
    /\ ids = EmptyList
    /\ futs = <<>>
    /\ results = <<>>
    /\ notfound = <<>>
    /\ payload = NoPayload
    /\ nap = 0
    /\ scrape = NoScrape

InRequest == pc \in {"get_work", "post"}

\* Bodies the coordinator can answer a call with.
BodiesFor(method) == IF method = "GET" THEN Bodies ELSE AckBodies

(***************************************************************************)
(* safe_request.                                                           *)
(***************************************************************************)
\* The attempt outcome o, entered into the call's counts.
Counted(call, o) ==
    [call EXCEPT !.attempts = @ + 1,
                 !.fails = @ + (IF o.exc THEN 1 ELSE 0),
                 !.got = @ + (IF o.exc THEN 0 ELSE 1)]

\* An attempt raises: log, and go on to the sleep.
RequestFails ==
    /\ InRequest /\ sr.st = "try"
    /\ sr.attempts < MaxFails
    /\ \E o \in AttemptOutcomes :
        /\ o.body \in BodiesFor(sr.method) \cup {NoBody}
        /\ Raises(o)
        /\ sr' = [Counted(sr, o) EXCEPT !.st = "sleep"]
    /\ UNCHANGED <<pc, r, ids, futs, results, notfound, payload, nap, scrape>>

\* Mutant: the delay doubles with every retry.
RequestSleepsGrowing ==
    /\ InRequest /\ sr.st = "sleep"
    /\ sr' = [sr EXCEPT !.sleeps = @ + 1, !.slept = @ + sr.delay, !.st = "try",
                        !.delay = @ * 2]
    /\ UNCHANGED <<pc, r, ids, futs, results, notfound, payload, nap, scrape>>

\* time.sleep(delay), then the next attempt.
RequestSleeps ==
    /\ InRequest /\ sr.st = "sleep"
    /\ sr' = [sr EXCEPT !.sleeps = @ + 1, !.slept = @ + sr.delay, !.st = "try"]
    /\ UNCHANGED <<pc, r, ids, futs, results, notfound, payload, nap, scrape>>

\* An attempt returns a response: safe_request returns it to main.
RequestReturns ==
    /\ InRequest /\ sr.st = "try"
    /\ \E o \in AttemptOutcomes :
        /\ ~Raises(o)
        /\ o.body \in BodiesFor(sr.method)
        /\ r' = o
        /\ sr' = [Counted(sr, o) EXCEPT !.st = "returned"]
    /\ pc' = IF pc = "get_work" THEN "decode" ELSE "ack"
    /\ UNCHANGED <<ids, futs, results, notfound, payload, nap, scrape>>

(***************************************************************************)
(* main.                                                                   *)
(***************************************************************************)
\* Lines 91-96: decoding the poll response raised.
DecodeFails ==
    /\ pc = "decode"
    /\ DecodeRaises(r.body)
    /\ nap' = BACKOFF
    /\ pc' = "backoff"
    /\ sr' = NoCall
    /\ UNCHANGED <<r, ids, futs, results, notfound, payload, scrape>>

\* Lines 92, 98-101: the decoded ids are falsy.
NoWork ==
    /\ pc = "decode"
    /\ ~DecodeRaises(r.body)
    /\ ~IdsTruthy(DecodedIds(r.body))
    /\ ids' = DecodedIds(r.body)
    /\ nap' = BACKOFF
    /\ pc' = "backoff"
    /\ sr' = NoCall
    /\ UNCHANGED <<r, futs, results, notfound, payload, scrape>>

\* Mutant: the lists of lines 105-106 are created once, before the loop.
GotWorkKeepLists ==
    /\ pc = "decode"
    /\ ~DecodeRaises(r.body)
    /\ IdsTruthy(DecodedIds(r.body))
    /\ ids' = DecodedIds(r.body)
    /\ futs' = <<>>
    /\ pc' = "submit"
    /\ sr' = NoCall
    /\ r' = NoAttempt
    /\ UNCHANGED <<results, notfound, payload, nap, scrape>>

\* Lines 92, 103-109: a batch; fresh lists, the pool is created.
GotWork ==
    /\ pc = "decode"
    /\ ~DecodeRaises(r.body)
    /\ IdsTruthy(DecodedIds(r.body))
    /\ ids' = DecodedIds(r.body)
    /\ results' = <<>>
    /\ notfound' = <<>>
    /\ futs' = <<>>
    /\ pc' = "submit"
    /\ sr' = NoCall
    /\ r' = NoAttempt
    /\ UNCHANGED <<payload, nap, scrape>>

\* The sleep of lines 95 and 100 ends; continue with the next poll.
Backoff ==
    /\ pc = "backoff"
    /\ pc' = "get_work"
    /\ sr' = NewCall("GET")
    /\ ids' = EmptyList
    /\ nap' = 0
    /\ r' = NoAttempt
    /\ UNCHANGED <<futs, results, notfound, payload, scrape>>

\* Line 110 on ids that cannot be iterated: TypeError leaves main.
SubmitTypeError ==
    /\ pc = "submit"
    /\ ~Iterable(ids)
    /\ pc' = "crashed"
    /\ UNCHANGED <<sr, r, ids, futs, results, notfound, payload, nap, scrape>>

NewFuture(i) ==
    [id |-> i, st |-> "queued", resp |-> NoResponse, row |-> None,
     gets |-> 0, collected |-> FALSE]

\* Line 110: ex.submit(fetch_one, i) for the next identifier of ids.
Submit ==
    /\ pc = "submit"
    /\ Iterable(ids)
    /\ Len(futs) < Len(ids.v)
    /\ futs' = Append(futs, NewFuture(ids.v[Len(futs) + 1]))
    /\ pc' = IF Len(futs) + 1 = Len(ids.v) THEN "collect" ELSE "submit"
    /\ UNCHANGED <<sr, r, ids, results, notfound, payload, nap, scrape>>

Running(fs) == { p \in 1..Len(fs) : fs[p].st = "running" }

\* Mutant: the pool starts a thread for every call.
PoolUnbounded(fs) == TRUE

\* ThreadPoolExecutor(max_workers=MAX_WORKERS): a queued call starts only
\* on one of at most MAX_WORKERS worker threads.
PoolHasFreeWorker(fs) == Cardinality(Running(fs)) < MAX_WORKERS

\* A worker thread takes the oldest queued call and enters fetch_one.
StartFetch(p) ==
    /\ pc \in {"submit", "collect"}
    /\ futs[p].st = "queued"
    /\ \A q \in 1..(p - 1) : futs[q].st # "queued"
    /\ PoolHasFreeWorker(futs)
    /\ futs' = [futs EXCEPT ![p].st = "running"]
    /\ UNCHANGED <<pc, sr, r, ids, results, notfound, payload, nap, scrape>>

\* Mutant: fetch_one repeats its GET once after a transport exception.
FinishFetchRetry(p) ==
    /\ pc \in {"submit", "collect"}
    /\ futs[p].st = "running"
    /\ \E resp \in ItemResponses :
        IF resp.exc /\ futs[p].gets = 0
        THEN futs' = [futs EXCEPT ![p].gets = @ + 1]
        ELSE futs' = [futs EXCEPT ![p].st = "done", ![p].resp = resp,
                                  ![p].gets = @ + 1,
                                  ![p].row = fetch_one(futs[p].id, resp)]
    /\ UNCHANGED <<pc, sr, r, ids, results, notfound, payload, nap, scrape>>

\* fetch_one runs: its one GET gets resp, and the call returns its row.
FinishFetch(p) ==
    /\ pc \in {"submit", "collect"}
    /\ futs[p].st = "running"
    /\ \E resp \in ItemResponses :
        futs' = [futs EXCEPT ![p].st = "done", ![p].resp = resp,
                             ![p].gets = @ + 1,
                             ![p].row = fetch_one(futs[p].id, resp)]
    /\ UNCHANGED <<pc, sr, r, ids, results, notfound, payload, nap, scrape>>

\* Lines 111-117: as_completed yields a finished future; fut.result()
\* re-raises what the call raised.
Collect(p) ==
    /\ pc = "collect"
    /\ futs[p].st = "done" /\ ~futs[p].collected
    /\ LET i == futs[p].id
           row == futs[p].row
       IN  IF row.kind = "raise"
           THEN /\ pc' = "crashed"
                /\ UNCHANGED <<futs, results, notfound>>
           ELSE /\ pc' = pc
                /\ futs' = [futs EXCEPT ![p].collected = TRUE]
                /\ notfound' = IF row = NOTFOUND THEN Append(notfound, i) ELSE notfound
                /\ results' = IF row # NOTFOUND /\ Truthy(row)
                              THEN Append(results, row) ELSE results
    /\ UNCHANGED <<sr, r, ids, payload, nap, scrape>>

AllCollected == \A p \in 1..Len(futs) : futs[p].collected

\* Mutant: the loop of line 111 is left after the first future it yields.
BuildPayloadEarly ==
    /\ pc = "collect"
    /\ \E p \in 1..Len(futs) : futs[p].collected
    /\ payload' = [submissions |-> results, notfound |-> notfound]
    /\ sr' = NewCall("POST")
    /\ pc' = "post"
    /\ UNCHANGED <<r, ids, futs, results, notfound, nap, scrape>>

\* Mutant: the POST is handed to the background and main polls at once.
BuildPayloadAsync ==
    /\ pc = "collect"
    /\ AllCollected
    /\ payload' = [submissions |-> results, notfound |-> notfound]
    /\ sr' = NewCall("GET")
    /\ pc' = "get_work"
    /\ UNCHANGED <<r, ids, futs, results, notfound, nap, scrape>>

\* Mutant: a batch that leaves both lists empty is not reported.
BuildPayloadSkipEmpty ==
    /\ pc = "collect"
    /\ AllCollected
    /\ IF results = <<>> /\ notfound = <<>>
       THEN /\ pc' = "backoff"
            /\ UNCHANGED <<payload, sr>>
       ELSE /\ payload' = [submissions |-> results, notfound |-> notfound]
            /\ sr' = NewCall("POST")
            /\ pc' = "post"
    /\ UNCHANGED <<r, ids, futs, results, notfound, nap, scrape>>

\* Lines 119-121: the loop over as_completed is exhausted, the pool is shut
\* down, the payload is built and safe_request("POST", ...) is called.
BuildPayload ==
    /\ pc = "collect"
    /\ AllCollected
    /\ payload' = [submissions |-> results, notfound |-> notfound]
    /\ sr' = NewCall("POST")
    /\ pc' = "post"
    /\ UNCHANGED <<r, ids, futs, results, notfound, nap, scrape>>

\* Mutant: a batch with a dropped item is processed again before the next
\* poll.
AckRetryDropped ==
    /\ pc = "ack"
    /\ IF \E p \in 1..Len(futs) : futs[p].row = None
       THEN /\ pc' = "submit"
            /\ sr' = NoCall
            /\ futs' = <<>>
            /\ UNCHANGED ids
       ELSE /\ pc' = "get_work"
            /\ sr' = NewCall("GET")
            /\ ids' = EmptyList
            /\ futs' = <<>>
    /\ r' = NoAttempt
    /\ payload' = NoPayload
    /\ UNCHANGED <<results, notfound, nap, scrape>>

\* Mutant: a report that is not acknowledged with status 200 is POSTed
\* again.
AckRepost ==
    /\ pc = "ack"
    /\ IF r.status # 200
       THEN /\ pc' = "post"
            /\ sr' = NewCall("POST")
            /\ UNCHANGED <<ids, futs, payload>>
       ELSE /\ pc' = "get_work"
            /\ sr' = NewCall("GET")
            /\ ids' = EmptyList
            /\ futs' = <<>>
            /\ payload' = NoPayload
    /\ r' = NoAttempt
    /\ UNCHANGED <<results, notfound, nap, scrape>>

\* Lines 122-125: the acknowledgment is logged (or a warning, when it does
\* not decode); back to the top of the loop.  The names that line 90, 92,
\* 110 and 120 assign before they are read again are cleared here.
Ack ==
    /\ pc = "ack"
    /\ pc' = "get_work"
    /\ sr' = NewCall("GET")
    /\ ids' = EmptyList
    /\ futs' = <<>>
    /\ r' = NoAttempt
    /\ payload' = NoPayload
    /\ UNCHANGED <<results, notfound, nap, scrape>>

Next ==
    \/ RequestFails
    \/ RequestSleeps
    \/ RequestReturns
    \/ DecodeFails
    \/ NoWork
    \/ GotWork
    \/ Backoff
    \/ SubmitTypeError
    \/ Submit
    \/ \E p \in 1..Len(futs) : StartFetch(p)
    \/ \E p \in 1..Len(futs) : FinishFetch(p)
    \/ \E p \in 1..Len(futs) : Collect(p)
    \/ BuildPayload
    \/ Ack

Spec == Init /\ [][Next]_vars

\* The process keeps running: main and the worker threads are scheduled as
\* long as one of them can take a step.  A safe_request call fails at most
\* MaxFails times in a row, and every fetch that has started returns.
FairSpec == Spec /\ WF_vars(Next)

(***************************************************************************)
(* The loop after a first batch: the batch [1, 2] has been reported, with  *)
(* 1 found and 2 not found, and main is back at line 90.                   *)
(***************************************************************************)
InitNextBatch ==
    /\ pc = "get_work"
    /\ sr = NewCall("GET")
    /\ r = NoAttempt
    /\ ids = EmptyList
    /\ futs = <<>>
    /\ results = << Row(1) >>
    /\ notfound = << 2 >>
    /\ payload = NoPayload
    /\ nap = 0
    /\ scrape = NoScrape

SpecNextBatch == InitNextBatch /\ [][Next]_vars

(***************************************************************************)
(* fetch_one on every page: a batch of one identifier whose fetch has      *)
(* started is answered 200 with any page of AllPages.                      *)
(***************************************************************************)
PageResponses == { [exc |-> FALSE, status |-> 200, doc |-> d] : d \in AllPages }

InitParse ==
    /\ pc = "collect"
    /\ sr = NoCall
    /\ r = NoAttempt
    /\ \E i \in IdSet :
        /\ ids = [t |-> "list", n |-> 0, v |-> <<i>>]
        /\ futs = << [NewFuture(i) EXCEPT !.st = "running"] >>
    /\ results = <<>>
    /\ notfound = <<>>
    /\ payload = NoPayload
    /\ nap = 0
    /\ scrape = NoScrape

\* fetch_one runs on a page: its GET is answered 200 with the page.
FetchPage(p) ==
    /\ pc \in {"submit", "collect"}
    /\ futs[p].st = "running"
    /\ \E resp \in PageResponses :
        futs' = [futs EXCEPT ![p].st = "done", ![p].resp = resp,
                             ![p].gets = @ + 1,
                             ![p].row = fetch_one(futs[p].id, resp)]
    /\ UNCHANGED <<pc, sr, r, ids, results, notfound, payload, nap, scrape>>

NextParse ==
    \/ \E p \in 1..Len(futs) : FetchPage(p)
    \/ \E p \in 1..Len(futs) : Collect(p)
    \/ BuildPayload

SpecParse == InitParse /\ [][NextParse]_vars

(***************************************************************************)
(* clean_int and clean_float on every text.                                *)
(***************************************************************************)
InitClean ==
    /\ pc = "clean"
    /\ sr = NoCall
    /\ r = NoAttempt
    /\ ids = EmptyList
    /\ futs = <<>>
    /\ results = <<>>
    /\ notfound = <<>>
    /\ payload = NoPayload
    /\ nap = 0
    /\ \E t \in Texts \cup {NoneText} :
        scrape = [arg |-> t, done |-> FALSE, int |-> 0, float |-> 0]

\* The two functions are called with the argument.
Clean ==
    /\ pc = "clean"
    /\ ~scrape.done
    /\ scrape' = [scrape EXCEPT !.done = TRUE,
                                !.int = clean_int(scrape.arg),
                                !.float = clean_float(scrape.arg)]
    /\ UNCHANGED <<pc, sr, r, ids, futs, results, notfound, payload, nap>>

NextClean == Clean

SpecClean == InitClean /\ [][NextClean]_vars

(***************************************************************************)
(* Properties.                                                             *)
(***************************************************************************)
\* Records of results that carry identifier i.
CountRes(i) ==
    Cardinality({ k \in 1..Len(results) : results[k].kind = "row" /\ results[k].id = i })

\* Occurrences of i in notfound.
CountNf(i) == Cardinality({ k \in 1..Len(notfound) : notfound[k] = i })

\* Collected fetches of i that returned None.
CountDropped(i) ==
    Cardinality({ p \in 1..Len(futs) :
                    futs[p].id = i /\ futs[p].collected /\ futs[p].row = None })

\* Occurrences of i in the batch.
Occurrences(i) ==
    IF Iterable(ids) THEN Cardinality({ k \in 1..Len(ids.v) : ids.v[k] = i }) ELSE 0

\* Every future of the batch has been submitted, has finished and has been
\* taken by the loop of lines 111-117.
BatchCollected ==
    /\ pc \in {"collect", "post", "ack"}
    /\ Len(futs) = Len(ids.v)
    /\ AllCollected

\* The response of future p is a well-formed HTTP response.
Responded(p) == futs[p].st = "done" /\ ~futs[p].resp.exc

\* C1 as stated: once the batch is collected, every identifier of the batch
\* is found once, or not found once, or dropped; it never occurs twice in
\* the report.
C1_Original ==
    BatchCollected =>
        \A i \in IdSet : Occurrences(i) > 0 => CountRes(i) + CountNf(i) <= 1

\* C1, amended: once the batch is collected, every occurrence of an
\* identifier in the batch has exactly one outcome, so for every identifier
\* the records, the not-found entries and the dropped fetches add up to its
\* occurrences in the batch; the report holds nothing else; and an identifier
\* that occurs once is in exactly one of the three classes.
C1_Partition ==
    BatchCollected =>
        /\ \A k \in 1..Len(results) : results[k].kind = "row" /\ results[k].id \in IdSet
        /\ \A k \in 1..Len(notfound) : notfound[k] \in IdSet
        /\ \A i \in IdSet :
            /\ CountRes(i) + CountNf(i) + CountDropped(i) = Occurrences(i)
            /\ Occurrences(i) = 1 => CountRes(i) + CountNf(i) <= 1

C1_Witness ==
    /\ BatchCollected
    /\ \E i, j \in IdSet :
        /\ Occurrences(i) = 2 /\ CountRes(i) = 1 /\ CountNf(i) = 1
        /\ Occurrences(j) = 1 /\ CountDropped(j) = 1

\* C2: in a safe_request call whose first N attempts raise and whose next
\* attempt returns a response, the call returns that response after N + 1
\* attempts; exactly one sleep of the fixed delay lies between an exception
\* and the attempt after it, none follows the response, the delay never
\* changes, and what is returned is a response, never an error.
C2_RetryUntilResponse ==
    /\ sr.delay = DELAY
    /\ sr.slept = DELAY * sr.sleeps
    /\ sr.st = "try" => sr.attempts = sr.fails /\ sr.sleeps = sr.fails
    /\ sr.st = "sleep" => sr.attempts = sr.fails /\ sr.sleeps + 1 = sr.fails
    /\ sr.st = "returned" =>
        /\ sr.attempts = sr.fails + 1
        /\ sr.sleeps = sr.fails
        /\ ~r.exc

C2_Witness ==
    sr.st = "returned" /\ sr.fails = 2 /\ sr.attempts = 3 /\ sr.slept = 10

\* C3: as soon as an attempt of safe_request has received a response,
\* whatever its status, the call has returned it: it is the only response
\* of the call, no sleep and no attempt follows it.
C3_NoRetryOnResponse ==
    sr.got > 0 =>
        /\ sr.st = "returned"
        /\ sr.got = 1
        /\ r.status \in Statuses
        /\ sr.attempts = sr.fails + 1
        /\ sr.sleeps = sr.fails
        /\ sr.fails = 0 => sr.slept = 0

C3_Witness ==
    sr.st = "returned" /\ sr.fails = 0 /\ sr.attempts = 1 /\ r.status = 500

\* C4: a fetch whose GET was answered 404 returns "NOTFOUND" whatever the
\* document, and the entries of notfound for an identifier are exactly its
\* collected fetches that were answered 404.
C4_NotFoundOn404 ==
    /\ \A p \in 1..Len(futs) :
        (Responded(p) /\ futs[p].resp.status = 404) => futs[p].row = NOTFOUND
    /\ pc \in {"collect", "post", "ack"} =>
        \A i \in IdSet :
            CountNf(i) = Cardinality({ p \in 1..Len(futs) :
                            /\ futs[p].id = i /\ futs[p].collected
                            /\ Responded(p) /\ futs[p].resp.status = 404 })

C4_Witness ==
    \E p \in 1..Len(futs) :
        /\ futs[p].collected /\ Responded(p)
        /\ futs[p].resp.status = 404 /\ futs[p].resp.doc = FullDoc
        /\ CountNf(futs[p].id) = 1 /\ CountRes(futs[p].id) = 0

\* Every fetch of identifier i in the batch was answered with a status that
\* is neither 200 nor 404.
OnlyOtherStatus(i) ==
    /\ Occurrences(i) > 0
    /\ \A p \in 1..Len(futs) :
        futs[p].id = i => Responded(p) /\ futs[p].resp.status \notin {200, 404}

\* C5: a fetch whose GET was answered with a status other than 200 and 404
\* returns None, and an identifier whose fetches were all answered so is in
\* neither list of the collected batch nor in its payload.
C5_DroppedOnOtherStatus ==
    /\ \A p \in 1..Len(futs) :
        (Responded(p) /\ futs[p].resp.status \notin {200, 404}) => futs[p].row = None
    /\ BatchCollected =>
        \A i \in IdSet : OnlyOtherStatus(i) =>
            /\ CountRes(i) = 0 /\ CountNf(i) = 0
            /\ pc = "post" =>
                /\ \A k \in 1..Len(payload.submissions) : payload.submissions[k].id # i
                /\ \A k \in 1..Len(payload.notfound) : payload.notfound[k] # i

C5_Witness ==
    /\ pc = "post"
    /\ \E i \in IdSet : OnlyOtherStatus(i) /\ Occurrences(i) = 2
    /\ Len(payload.submissions) + Len(payload.notfound) = 1

\* C6: a fetch whose GET raised a transport exception returns None after
\* that one GET: a finished fetch has made exactly one GET, an unfinished
\* one none.
C6_NoRetryInFetch ==
    \A p \in 1..Len(futs) :
        /\ futs[p].st = "done" => futs[p].gets = 1
        /\ futs[p].st # "done" => futs[p].gets = 0
        /\ (futs[p].st = "done" /\ futs[p].resp.exc) => futs[p].row = None

C6_Witness ==
    /\ pc = "post"
    /\ \E p \in 1..Len(futs) :
        /\ futs[p].resp.exc /\ futs[p].gets = 1 /\ futs[p].collected
        /\ CountRes(futs[p].id) = 0 /\ CountNf(futs[p].id) = 0

\* The decoded ids are not a sequence: a number or null.
IdsNotASequence(body) ==
    body.shape = "object" /\ body.ids.t \in {"int", "null"}

\* C7 as stated: a poll response that is not JSON, not a JSON object, or
\* whose ids are not a sequence leads main to the backoff sleep of 5 and
\* from there to the next poll; nothing is submitted to a pool, and main
\* never ends with an error.
C7_Original ==
    [][/\ (pc = "decode" /\ (DecodeRaises(r.body) \/ IdsNotASequence(r.body))) =>
            (pc' = "backoff" /\ nap' = BACKOFF /\ futs' = <<>>)
       /\ pc' # "crashed"]_vars

\* The decoded ids are the empty sequence (or the default of a missing key).
IdsEmpty(body) ==
    /\ ~DecodeRaises(body)
    /\ DecodedIds(body).t = "list"
    /\ Len(DecodedIds(body).v) = 0

\* C8: after a poll response whose ids decode to the empty sequence, main
\* sleeps the backoff of 5 without submitting a fetch, touching the lists or
\* the payload, or starting a POST, and the step after the sleep starts the
\* next poll.
C8_EmptyBatchBackoff ==
    [][/\ (pc = "decode" /\ IdsEmpty(r.body)) =>
            /\ pc' = "backoff" /\ nap' = BACKOFF
            /\ futs' = <<>> /\ sr'.st = "idle"
            /\ UNCHANGED <<results, notfound, payload>>
       /\ pc = "backoff" =>
            /\ pc' = "get_work"
            /\ sr' = NewCall("GET")
            /\ futs' = <<>>
            /\ UNCHANGED <<results, notfound, payload>>]_vars

C8_Witness ==
    /\ pc = "backoff" /\ nap = BACKOFF
    /\ r.body.shape = "object" /\ r.body.ids = EmptyList
    /\ futs = <<>> /\ sr.st = "idle"

\* C9: the fetch_one calls that have started and not finished never
\* outnumber the pool's workers, also for a batch larger than the pool.
C9_PoolBound == Cardinality(Running(futs)) <= MAX_WORKERS

C9_Witness ==
    /\ Len(ids.v) > MAX_WORKERS
    /\ Cardinality(Running(futs)) = MAX_WORKERS
    /\ \E p \in 1..Len(futs) : futs[p].st = "queued"

\* The response makes the item fail: a transport exception, a status other
\* than 200 and 404, a page without the metadata row, or a page whose parse
\* raises.
Fails(resp) ==
    \/ resp.exc
    \/ resp.status \notin {200, 404}
    \/ resp.status = 200 /\ ~resp.doc.row
    \/ resp.status = 200 /\ resp.doc.row /\ resp.doc.links >= 2 /\ ~resp.doc.href

\* The collected fetches of identifier i whose response satisfies P.
CollectedWith(i, P(_)) ==
    Cardinality({ p \in 1..Len(futs) :
                    futs[p].id = i /\ futs[p].collected /\ P(futs[p].resp) })

Is404(resp) == ~resp.exc /\ resp.status = 404
Parses(resp) == ~Fails(resp) /\ ~Is404(resp)

\* C10: no finished fetch holds an exception, main is never ended by a
\* failing item, and throughout the collection, in every order of
\* completion, the lists hold for every identifier exactly what its own
\* fetches' responses give: a record per page that parses, an entry of
\* notfound per 404, nothing for a failure; the payload POSTed is built from
\* these lists once every future is collected.
C10_FailureIsolation ==
    /\ \A p \in 1..Len(futs) : futs[p].st = "done" => futs[p].row.kind # "raise"
    /\ pc = "crashed" => ~Iterable(ids)
    /\ pc \in {"collect", "post", "ack"} =>
        \A i \in IdSet :
            /\ CountRes(i) = CollectedWith(i, Parses)
            /\ CountNf(i) = CollectedWith(i, Is404)
    /\ pc = "post" =>
        /\ BatchCollected
        /\ payload = [submissions |-> results, notfound |-> notfound]

C10_Witness ==
    /\ pc = "post" /\ Len(futs) = 3
    /\ \E p, q, s \in 1..Len(futs) :
        /\ futs[p].resp.exc
        /\ futs[q].resp.status = 200 /\ futs[q].resp.doc.row /\ ~futs[q].resp.doc.href
        /\ Parses(futs[s].resp)
        /\ payload.submissions = << Row(futs[s].id) >>

\* C11: the POST of a batch is started only when every future of the batch
\* has finished and has been collected, with the payload built from the
\* lists as they are then; while the POST is in flight (its retries
\* included) no fetch is outstanding and neither the payload nor the lists
\* nor the futures change.
C11_NoPartialReport ==
    /\ [](pc = "post" =>
            /\ Len(futs) = Len(ids.v)
            /\ \A p \in 1..Len(futs) : futs[p].st = "done" /\ futs[p].collected)
    /\ [][/\ (pc # "post" /\ pc' = "post") =>
                /\ Len(futs) = Len(ids.v)
                /\ \A p \in 1..Len(futs) : futs[p].st = "done" /\ futs[p].collected
                /\ payload' = [submissions |-> results, notfound |-> notfound]
          /\ pc = "post" => UNCHANGED <<payload, futs, results, notfound>>]_vars

C11_Witness ==
    /\ pc = "post" /\ sr.method = "POST" /\ sr.st = "sleep" /\ sr.fails = 2
    /\ Len(futs) = 3
    /\ Len(payload.submissions) = 2 /\ Len(payload.notfound) = 1

\* C12: from the moment a batch has been received until its POST has
\* obtained a response, main stays with that batch: ids does not change,
\* every future belongs to it, no GET for work is started and main goes
\* nowhere but on through submit, collect and post to the acknowledgment.
C12_OneBatchAtATime ==
    [][(pc \in {"submit", "collect", "post"} /\ Iterable(ids)) =>
            /\ ids' = ids
            /\ pc' \in {"submit", "collect", "post", "ack"}
            /\ sr'.method # "GET"
            /\ Len(futs') <= Len(ids.v)
            /\ \A p \in 1..Len(futs') : futs'[p].id = ids.v[p]]_vars

C12_Witness ==
    /\ pc = "post" /\ sr.method = "POST" /\ sr.st = "try" /\ sr.fails = 2
    /\ Len(ids.v) = 3 /\ Len(futs) = 3

\* The GET of future p was answered 200 with a page.
Answered200(p) == Responded(p) /\ futs[p].resp.status = 200

\* C13: a fetch answered 200 with a page that lacks the metadata row returns
\* None, with or without the code block and the subtask scores on the page;
\* once collected it has left nothing in results, notfound or the payload.
C13_NoRowIsDropped ==
    \A p \in 1..Len(futs) :
        (Answered200(p) /\ ~futs[p].resp.doc.row) =>
            /\ futs[p].row = None
            /\ futs[p].collected => results = <<>> /\ notfound = <<>>
            /\ pc = "post" => payload = NoPayload

C13_Witness ==
    /\ pc = "post" /\ payload = NoPayload
    /\ \E p \in 1..Len(futs) :
        /\ Answered200(p) /\ futs[p].collected
        /\ ~futs[p].resp.doc.row
        /\ futs[p].resp.doc.code /\ Len(futs[p].resp.doc.subs) = 2

\* C14 as stated: a fetch answered 200 with a page that has the metadata row
\* returns a record whatever else is missing, and in the record every
\* textual field whose source is missing is "" and every numeric field
\* whose source is missing is 0.
C14_Original ==
    \A p \in 1..Len(futs) :
        (Answered200(p) /\ futs[p].resp.doc.row) =>
            LET d == futs[p].resp.doc
                row == futs[p].row
            IN  /\ row.kind = "row"
                /\ row.id = futs[p].id
                /\ ~d.code => row.code = ""
                /\ d.links = 0 => row.username = ""
                /\ (d.links < 2 \/ ~d.href) => row.problem_link = ""
                /\ d.tspan # "iso" => row.ts_iso = ""
                /\ ~d.lang => row.language = ""
                /\ d.score = NoneText => row.score = 0
                /\ d.exec = NoneText => row.execution_time = 0
                /\ d.mem = NoneText => row.memory = 0
                /\ d.subs = <<>> => row.subtask_scores = <<>>

\* The value of the digits s[a..b] read as a decimal number, times unit.
RECURSIVE DecimalValue(_, _, _, _)
DecimalValue(s, a, b, unit) ==
    IF a > b THEN 0
    ELSE DigitVal(s[b]) * unit + DecimalValue(s, a, b - 1, unit * 10)

AllDigits(s, a, b) == \A k \in a..b : s[k] \in Digits

\* s[a..b] is the first integer token of s: a run of digits that no digit
\* precedes anywhere in s and no digit follows directly.
FirstIntToken(s, a, b) ==
    /\ 1 <= a /\ a <= b /\ b <= Len(s)
    /\ AllDigits(s, a, b)
    /\ \A k \in 1..(a - 1) : s[k] \notin Digits
    /\ b < Len(s) => s[b + 1] \notin Digits

\* s[e+1..b] is a fraction that directly follows the integer token ending at
\* e: a point and a run of digits that no digit follows directly.
Fraction(s, e, b) ==
    /\ e + 2 <= b /\ b <= Len(s)
    /\ s[e + 1] = "."
    /\ AllDigits(s, e + 2, b)
    /\ b < Len(s) => s[b + 1] \notin Digits

\* The text the argument stands for: None counts as the empty text.
ScrapedText == IF scrape.arg = NoneText THEN <<>> ELSE scrape.arg

C16_NoInProcessRetry ==
    [][/\ (pc' \in {"submit", "collect", "post", "ack"} /\ Iterable(ids')) =>
            /\ Len(futs') <= Len(ids'.v)
            /\ \A p \in 1..Len(futs') : futs'[p].id = ids'.v[p] /\ futs'[p].gets <= 1
       /\ \A p \in 1..Len(futs) :
            futs[p].st = "done" =>
                \/ pc = "ack" /\ pc' = "get_work"
                \/ /\ Len(futs') >= p
                   /\ futs'[p].st = "done"
                   /\ futs'[p].resp = futs[p].resp
                   /\ futs'[p].row = futs[p].row
                   /\ futs'[p].gets = futs[p].gets
       /\ pc = "post" => pc' \in {"post", "ack"}
       /\ pc = "ack" => pc' = "get_work" /\ futs' = <<>>]_vars

C16_Witness ==
    /\ pc = "ack"
    /\ Len(futs) = 2 /\ ids.v = <<1, 2>>
    /\ futs[1].row = None /\ futs[1].gets = 1
    /\ futs[2].row = None /\ futs[2].gets = 1

\* C17 as stated: under the fairness of FairSpec, every batch received is
\* followed by an acknowledged POST and that by the next poll, and main has
\* no terminal state: it gets back to polling again and again.
C17_Original ==
    /\ (pc = "submit") ~> (pc = "ack")
    /\ (pc = "ack") ~> (pc = "get_work")
    /\ []<>(pc = "get_work")

\* The part of C17 about batches that are lists.
C17_BatchProgress ==
    /\ (pc = "submit" /\ Iterable(ids)) ~> (pc = "ack")
    /\ (pc = "ack") ~> (pc = "get_work")

\* C18: the POST call has returned with the one response it obtained, and
\* from there, whatever the status and whether or not the body decodes, the
\* next step of main is the call of safe_request("GET") for the next poll,
\* without a sleep.
C18_AckUnconditional ==
    /\ [](pc = "ack" =>
            sr.method = "POST" /\ sr.st = "returned" /\ sr.got = 1 /\ nap = 0)
    /\ [][pc = "ack" =>
            /\ pc' = "get_work"
            /\ sr' = NewCall("GET")
            /\ nap' = 0]_vars

C18_Witness ==
    pc = "ack" /\ r.status = 500 /\ r.body.shape = "notjson" /\ sr.fails = 1

\* The collected futures of the batch whose row is not None.
Reported == { p \in 1..Len(futs) : futs[p].collected /\ futs[p].row # None }

\* C19: while a batch is processed and reported, the lists hold exactly the
\* outcomes collected from the futures of this batch, so they are empty
\* before the first future is collected whatever an earlier batch left in
\* them, and the payload POSTed is made of these lists.
C19_NoCarryOver ==
    (pc \in {"submit", "collect", "post"} /\ Iterable(ids)) =>
        /\ Len(results) + Len(notfound) = Cardinality(Reported)
        /\ \A k \in 1..Len(results) :
            \E p \in Reported : results[k] = futs[p].row /\ futs[p].id = ids.v[p]
        /\ \A k \in 1..Len(notfound) :
            \E p \in Reported : futs[p].row = NOTFOUND /\ notfound[k] = ids.v[p]
        /\ pc = "post" => payload = [submissions |-> results, notfound |-> notfound]

C19_Witness ==
    /\ pc = "post" /\ sr.fails = 1
    /\ ids.v = <<2>>
    /\ payload = [submissions |-> << Row(2) >>, notfound |-> <<>>]

\* C20: when every future of a batch has been collected, the next step of
\* main builds the payload and calls safe_request("POST"), also when both
\* lists are empty; that call returns with one response, and the next poll
\* follows.
C20_AlwaysOneReport ==
    [][/\ (pc = "collect" /\ AllCollected) =>
            /\ pc' = "post"
            /\ sr' = NewCall("POST")
            /\ payload' = [submissions |-> results, notfound |-> notfound]
       /\ (pc = "post" /\ pc' # "post") => pc' = "ack" /\ sr'.got = 1
       /\ pc = "backoff" => futs = <<>>]_vars

C20_Witness ==
    /\ pc = "post" /\ sr.method = "POST" /\ sr.attempts = 1
    /\ Len(ids.v) = 3
    /\ \A p \in 1..Len(futs) : futs[p].row = None
    /\ payload = [submissions |-> <<>>, notfound |-> <<>>]

====
